---- MODULE Spec2Model ----
(***************************************************************************)
(* Batch planner, review orchestrator and suggestion parser of the pull    *)
(* request review agent (Week-8/SecureAgent-SecureCode/src/app.ts and      *)
(* prompts.ts).                                                            *)
(*                                                                         *)
(* A file name is the sequence of its '.'-separated parts                  *)
(* ("a.ts" is <<"a", "ts">>, "d." is <<"d", "">>, "Makefile" is            *)
(* <<"Makefile">>).  A patch is the sequence of its lines; a line records  *)
(* its first character and whether it holds a special token of the         *)
(* tokenizer.  Token counts are additive: the conversation costs the       *)
(* prompt plus, for every rendered file, a header plus a cost per line.    *)
(***************************************************************************)
EXTENDS Integers, Sequences, FiniteSets, TLC

\* ------------------------------------------------------------------ bounds
MaxFiles == 3        \* longest input file list
MaxAdded == 4        \* most added lines in one patch
LineTokens == 40000  \* tokens of one patch line
HeaderTokens == 1000 \* tokens of the "## filename" header of a rendered patch
PromptTokens == 1000 \* tokens of the system prompt of a conversation

\* ModelsToTokenLimits[GROQ_MODEL], GROQ_MODEL = "llama-3.3-70b-versatile"
TokenLimit == 128000

\* ----------------------------------------------------------------- helpers
Last(s) == s[Len(s)]

RECURSIVE SumSeq(_)
SumSeq(s) == IF s = <<>> THEN 0 ELSE Head(s) + SumSeq(Tail(s))

RECURSIVE Flatten(_)
Flatten(ss) == IF ss = <<>> THEN <<>> ELSE Head(ss) \o Flatten(Tail(ss))

Range(s) == {s[i] : i \in DOMAIN s}

Rep(x, n) == [i \in 1..n |-> x]

\* ------------------------------------------------------------------ inputs
AddedLine == [first |-> "+", special |-> FALSE]
RemovedLine == [first |-> "-", special |-> FALSE]
SpecialLine == [first |-> "+", special |-> TRUE]

\* a patch of a added lines, with r removed lines after the first of them
MkPatch(a, r) == <<AddedLine>> \o Rep(RemovedLine, r) \o Rep(AddedLine, a - 1)

Patches == {MkPatch(a, r) : a \in 1..MaxAdded, r \in 0..1}

\* a patch whose text holds a special token of the tokenizer
SpecialPatch == <<SpecialLine>>

NamePool ==
  << <<"a", "ts">>, <<"b", "ts">>, <<"E", "TS">>, <<"c", "py">>, <<"d", "">>,
     <<"Makefile">>, <<"package", "json">> >>

\* String.prototype.toLowerCase on the strings of NamePool
toLowerCase(s) ==
  CASE s = "E" -> "e"
    [] s = "TS" -> "ts"
    [] s = "Makefile" -> "makefile"
    [] OTHER -> s

\* ------------------------------------------------------------- filterFile
extensionsToIgnore ==
  {"pdf", "png", "jpg", "jpeg", "gif", "mp4", "mp3", "md", "json", "env",
   "toml", "svg"}

filesToIgnore ==
  { <<"package-lock", "json">>, <<"yarn", "lock">>, <<"", "gitignore">>,
    <<"package", "json">>, <<"tsconfig", "json">>, <<"poetry", "lock">>,
    <<"readme", "md">> }

filterFile(file) ==
  LET splitFilename == [i \in DOMAIN file.filename |-> toLowerCase(file.filename[i])]
      extension == Last(splitFilename)
  IN  IF splitFilename \in filesToIgnore THEN FALSE
      ELSE IF Len(splitFilename) <= 1 THEN FALSE
      ELSE IF extension # "" /\ extension \in extensionsToIgnore THEN FALSE
      ELSE TRUE

\* ------------------------------------------------- rendering and estimating
\* the text of one rendered file: its name header and the lines of its patch
patchBuilder(file) == [filename |-> file.filename, lines |-> file.patch]

\* the tokenizer raises on a text that holds one of its special tokens
encodeRaises(blob) == \E i \in DOMAIN blob.lines : blob.lines[i].special

getTokenLength(blob) == HeaderTokens + LineTokens * Len(blob.lines)

constructPrompt(files, convoBuilder) ==
  [system |-> convoBuilder,
   patches |-> [i \in DOMAIN files |-> patchBuilder(files[i])]]

encodeChatLength(convo) ==
  PromptTokens
    + SumSeq([i \in DOMAIN convo.patches |-> getTokenLength(convo.patches[i])])

isConversationWithinLimit(convo) == encodeChatLength(convo) < TokenLimit

\* ------------------------------------------------- groupFilesByExtension
\* the Map as the sequence of its entries in insertion order
RECURSIVE groupInto(_, _)
groupInto(files, filesByExtension) ==
  IF files = <<>> THEN filesByExtension
  ELSE
    LET file == Head(files)
        extension == toLowerCase(Last(file.filename))
        has == \E i \in DOMAIN filesByExtension :
                 filesByExtension[i].extension = extension
        next ==
          IF extension = "" THEN filesByExtension
          ELSE IF has THEN
            [i \in DOMAIN filesByExtension |->
               IF filesByExtension[i].extension = extension
               THEN [filesByExtension[i] EXCEPT !.files = Append(@, file)]
               ELSE filesByExtension[i]]
          ELSE Append(filesByExtension,
                      [extension |-> extension, files |-> <<file>>])
    IN  groupInto(Tail(files), next)

groupFilesByExtension(files) == groupInto(files, <<>>)

\* ------------------------------------------------ processWithinLimitFiles
\* Array.prototype.sort by patchTokenLength (stable)
RECURSIVE insertSorted(_, _)
insertSorted(sorted, file) ==
  IF sorted = <<>> THEN <<file>>
  ELSE IF Last(sorted).patchTokenLength <= file.patchTokenLength
       THEN Append(sorted, file)
       ELSE Append(insertSorted(SubSeq(sorted, 1, Len(sorted) - 1), file),
                   Last(sorted))

RECURSIVE sortByTokenLength(_)
sortByTokenLength(files) ==
  IF files = <<>> THEN <<>>
  ELSE insertSorted(sortByTokenLength(SubSeq(files, 1, Len(files) - 1)),
                    Last(files))

\* the greedy split seeding the next group with the group that overflowed
RECURSIVE greedySplit_keepsOverflow(_, _, _, _)
greedySplit_keepsOverflow(files, currentGroup, processGroups, convoBuilder) ==
  IF files = <<>>
  THEN IF Len(currentGroup) > 0 THEN Append(processGroups, currentGroup)
       ELSE processGroups
  ELSE
    LET file == Head(files)
        isPotentialGroupWithinLimit ==
          isConversationWithinLimit(
            constructPrompt(Append(currentGroup, file), convoBuilder))
    IN  IF isPotentialGroupWithinLimit
        THEN greedySplit_keepsOverflow(Tail(files), Append(currentGroup, file),
                                       processGroups, convoBuilder)
        ELSE greedySplit_keepsOverflow(Tail(files), <<>>,
                                       Append(processGroups,
                                              Append(currentGroup, file)),
                                       convoBuilder)

\* the forEach of the greedy split and the push of the last group
RECURSIVE greedySplit(_, _, _, _)
greedySplit(files, currentGroup, processGroups, convoBuilder) ==
  IF files = <<>>
  THEN IF Len(currentGroup) > 0 THEN Append(processGroups, currentGroup)
       ELSE processGroups
  ELSE
    LET file == Head(files)
        isPotentialGroupWithinLimit ==
          isConversationWithinLimit(
            constructPrompt(Append(currentGroup, file), convoBuilder))
    IN  IF isPotentialGroupWithinLimit
        THEN greedySplit(Tail(files), Append(currentGroup, file),
                         processGroups, convoBuilder)
        ELSE greedySplit(Tail(files), <<file>>,
                         Append(processGroups, currentGroup), convoBuilder)

\* the body of the loop over the extension groups
groupsOfExtension(filesForExt, convoBuilder) ==
  IF isConversationWithinLimit(constructPrompt(filesForExt, convoBuilder))
  THEN << filesForExt >>
  ELSE greedySplit(sortByTokenLength(filesForExt), <<>>, <<>>, convoBuilder)

processWithinLimitFiles(files, convoBuilder) ==
  IF ~isConversationWithinLimit(constructPrompt(files, convoBuilder))
  THEN LET grouped == groupFilesByExtension(files)
       IN  Flatten([i \in DOMAIN grouped |->
                      groupsOfExtension(grouped[i].files, convoBuilder)])
  ELSE << files >>

\* ----------------------------------------------- processOutsideLimitFiles
stripRemovedLines(originalFile) ==
  [originalFile EXCEPT
     !.patch = SelectSeq(originalFile.patch, LAMBDA line : line.first # "-")]

processOutsideLimitFiles(files, convoBuilder) ==
  IF Len(files) = 0 THEN <<>>
  ELSE
    LET stripped == [i \in DOMAIN files |-> stripRemovedLines(files[i])]
        fitsAlone(file) ==
          isConversationWithinLimit(constructPrompt(<<file>>, convoBuilder))
        withinLimits == SelectSeq(stripped, fitsAlone)
    IN  IF isConversationWithinLimit(constructPrompt(stripped, convoBuilder))
        THEN << stripped >>
        ELSE processWithinLimitFiles(withinLimits, convoBuilder)

\* ------------------------------------------- reviewChanges, planning part
\* lines 856-859: the filtered files with their cached token length
filteredFilesOf(files) ==
  LET kept == SelectSeq(files, filterFile)
  IN  [i \in DOMAIN kept |->
         [filename |-> kept[i].filename,
          patch |-> kept[i].patch,
          patchTokenLength |-> getTokenLength(patchBuilder(kept[i]))]]

\* line 858 applies the tokenizer to every filtered file outside any try block
planRaises(files) ==
  \E i \in DOMAIN files :
    filterFile(files[i]) /\ encodeRaises(patchBuilder(files[i]))

fitsAloneIn(convoBuilder, file) ==
  isConversationWithinLimit(constructPrompt(<<file>>, convoBuilder))

patchesWithinModelLimit(filtered, convoBuilder) ==
  SelectSeq(filtered, LAMBDA file : fitsAloneIn(convoBuilder, file))

patchesOutsideModelLimit(filtered, convoBuilder) ==
  SelectSeq(filtered, LAMBDA file : ~fitsAloneIn(convoBuilder, file))

\* line 892: the batches the completion service is asked about
planGroups(files, convoBuilder) ==
  LET filtered == filteredFilesOf(files)
  IN  processWithinLimitFiles(patchesWithinModelLimit(filtered, convoBuilder),
                              convoBuilder)
      \o processOutsideLimitFiles(
           patchesOutsideModelLimit(filtered, convoBuilder), convoBuilder)

\* ---------------------------------------------------------------- replies
(* A reply of the completion service, by what the parsers read of it:      *)
(* hasOpen/hasClose: the text includes "<review>" / "</review>";           *)
(* parse: the outcome of xmlParser.parseStringPromise on the sanitized     *)
(* review section ("ok", or "error" when it raises);                       *)
(* suggestion: result.review.suggestion of a successful parse;             *)
(* blocks: the fenced code blocks of the raw text, in order.               *)
(* A parsed field has one of the shapes xml2js produces: undefined, a      *)
(* string, an array of elements, or an object with an optional text (_)    *)
(* and optional attributes ($).                                            *)
Undef == [t |-> "undefined"]
Str(s) == [t |-> "string", v |-> s]
Obj(s) == [t |-> "object", hasText |-> TRUE, text |-> s, hasAttrs |-> FALSE]
Attrs == [t |-> "object", hasText |-> FALSE, text |-> "", hasAttrs |-> TRUE]
Bare == [t |-> "object", hasText |-> FALSE, text |-> "", hasAttrs |-> FALSE]
Null == [t |-> "null"]
Arr(items) == [t |-> "array", items |-> items]

\* <tag>s</tag> under explicitArray and explicitCharkey
TextNode(s) == Arr(<<Obj(s)>>)

\* String.prototype.trim on the strings of the model
trim(s) ==
  CASE s = " " -> ""
    [] s = " fix1 " -> "fix1"
    [] OTHER -> s

\* JSON.stringify of an object or of an array
stringifyOf(x) ==
  CASE x.t = "array" -> "[]"
    [] x.t = "object" /\ x.hasAttrs -> "{attrs}"
    [] OTHER -> "{object}"

\* String(x) of an array element
StringOf(x) ==
  CASE x.t = "string" -> x.v
    [] x.t = "object" -> "[object Object]"
    [] OTHER -> "null"

PRSuggestionImpl(describe, type, comment, code, filename) ==
  [describe |-> describe, type |-> type, comment |-> comment, code |-> code,
   filename |-> filename]

\* lines 449-503: the text of the code field, or nothing
codeContentOf(code) ==
  LET none == [ok |-> FALSE, v |-> ""]
      some(s) == [ok |-> TRUE, v |-> s]
      ofObject(o) ==
        IF o.hasText /\ o.text # "" THEN some(o.text)
        ELSE IF o.hasAttrs THEN some("{attrs}")
        ELSE some(stringifyOf(o))
  IN  IF code.t = "undefined" \/ code.t = "null"
         \/ (code.t = "string" /\ code.v = "")
      THEN none
      ELSE IF code.t = "string" THEN some(code.v)
      ELSE IF code.t = "array" /\ Len(code.items) > 0
      THEN LET firstElement == code.items[1]
           IN  IF firstElement.t = "string" THEN some(firstElement.v)
               ELSE IF firstElement.t = "object" THEN ofObject(firstElement)
               ELSE none
      ELSE IF code.t = "array" THEN some(stringifyOf(code))
      ELSE ofObject(code)

\* lines 510-537: describe, type, comment and filename
fieldTextOf(field) ==
  IF field.t = "string" THEN field.v
  ELSE IF field.t = "array" /\ Len(field.items) > 0
  THEN StringOf(field.items[1])
  ELSE ""

\* lines 440-550: one element of allSuggestions to a suggestion, or nothing
toSuggestion(rawSuggestion) ==
  IF rawSuggestion.t # "object" THEN <<>>
  ELSE LET codeContent == codeContentOf(rawSuggestion.code)
       IN  IF ~codeContent.ok THEN <<>>
           ELSE << PRSuggestionImpl(fieldTextOf(rawSuggestion.describe),
                                    fieldTextOf(rawSuggestion.type),
                                    fieldTextOf(rawSuggestion.comment),
                                    trim(codeContent.v),
                                    fieldTextOf(rawSuggestion.filename)) >>

\* lines 348-420: one reply to its parse result; raised when an exception
\* leaves the callback
parseFeedback_noCatch(fb) ==
  IF ~fb.hasOpen \/ ~fb.hasClose
  THEN [raised |-> FALSE, suggestion |-> <<>>]
  ELSE IF fb.parse = "error" THEN [raised |-> TRUE, suggestion |-> <<>>]
  ELSE [raised |-> FALSE, suggestion |-> fb.suggestion]

parseFeedback(fb) ==
  IF ~fb.hasOpen \/ ~fb.hasClose
  THEN [raised |-> FALSE, suggestion |-> <<>>]
  ELSE IF fb.parse = "error" THEN [raised |-> FALSE, suggestion |-> <<>>]
  ELSE [raised |-> FALSE, suggestion |-> fb.suggestion]

processXMLSuggestions(feedbacks) ==
  LET parsedSuggestions == [i \in DOMAIN feedbacks |-> parseFeedback(feedbacks[i])]
      allSuggestions ==
        Flatten([i \in DOMAIN feedbacks |-> parsedSuggestions[i].suggestion])
  IN  IF \E i \in DOMAIN feedbacks : parsedSuggestions[i].raised
      THEN <<>>
      ELSE Flatten([i \in DOMAIN allSuggestions |-> toSuggestion(allSuggestions[i])])

\* ---------------------------------------------------- fallbackTextParser
(* A fenced code block of a reply: its language tag ("" when it has none), *)
(* its body, the file name the text before it names ("" when none) and the *)
(* comment the text before it yields ("" when nothing usable).             *)
Block(language, code, hint, comment) ==
  [language |-> language, code |-> code, hint |-> hint, comment |-> comment]

extensionOfLanguage(language) ==
  CASE language = "js" -> "code-suggestion.js"
    [] language = "go" -> "code-suggestion.go"
    [] OTHER -> "code-suggestion.txt"

describeOfFilename(filename) ==
  CASE filename = "code-suggestion.js" -> "Code suggestion for code-suggestion.js"
    [] filename = "code-suggestion.go" -> "Code suggestion for code-suggestion.go"
    [] filename = "src/a.go" -> "Code suggestion for src/a.go"
    [] OTHER -> "Code suggestion for code-suggestion.txt"

genericComment(language) ==
  CASE language = "go" -> "Consider this code improvement for better go implementation"
    [] OTHER -> "Consider this code improvement for better js implementation"

\* the block body between fence lines, the fence written ~~~
fencedCode(language, code) ==
  CASE language = "go" /\ code = "fix2" -> "~~~go fix2 ~~~"
    [] language = "go" -> "~~~go fix1 ~~~"
    [] code = "fix2" -> "~~~js fix2 ~~~"
    [] OTHER -> "~~~js fix1 ~~~"

\* a block of blanks only is not skipped
suggestionOfBlock_keepsEmpty(block) ==
  LET language == IF block.language = "" THEN "js" ELSE block.language
      filename == IF block.hint # "" THEN block.hint
                  ELSE extensionOfLanguage(language)
      comment == IF block.comment = "" THEN genericComment(language)
                 ELSE block.comment
  IN  << PRSuggestionImpl(describeOfFilename(filename), "improvement",
                          comment, fencedCode(language, block.code),
                          filename) >>

suggestionOfBlock(block) ==
  LET language == IF block.language = "" THEN "js" ELSE block.language
      filename == IF block.hint # "" THEN block.hint
                  ELSE extensionOfLanguage(language)
      comment == IF block.comment = "" THEN genericComment(language)
                 ELSE block.comment
  IN  IF trim(block.code) = "" THEN <<>>
      ELSE << PRSuggestionImpl(describeOfFilename(filename), "improvement",
                               comment, fencedCode(language, block.code),
                               filename) >>

fallbackTextParser(text) ==
  Flatten([i \in DOMAIN text.blocks |-> suggestionOfBlock(text.blocks[i])])

\* ------------------------------------------------------- response builders
identity(suggestion) ==
  << suggestion.describe, suggestion.type, suggestion.comment, suggestion.code,
     suggestion.filename >>

\* keyed by file name instead of identity
dedupSuggestions_byFilename(suggestions) ==
  LET firsts ==
        SelectSeq([i \in DOMAIN suggestions |-> i],
                  LAMBDA i : \A j \in 1..(i - 1) :
                     suggestions[j].filename # suggestions[i].filename)
      lastOf(i) ==
        CHOOSE j \in DOMAIN suggestions :
          /\ suggestions[j].filename = suggestions[i].filename
          /\ \A k \in DOMAIN suggestions :
               suggestions[k].filename = suggestions[i].filename => k <= j
  IN  [n \in DOMAIN firsts |-> suggestions[lastOf(firsts[n])]]

\* Map.set by identity: the place of the first, the value of the last
dedupSuggestions(suggestions) ==
  LET firsts ==
        SelectSeq([i \in DOMAIN suggestions |-> i],
                  LAMBDA i : \A j \in 1..(i - 1) :
                     identity(suggestions[j]) # identity(suggestions[i]))
      lastOf(i) ==
        CHOOSE j \in DOMAIN suggestions :
          /\ identity(suggestions[j]) = identity(suggestions[i])
          /\ \A k \in DOMAIN suggestions :
               identity(suggestions[k]) = identity(suggestions[i]) => k <= j
  IN  [n \in DOMAIN firsts |-> suggestions[lastOf(firsts[n])]]

\* one comment per file name, in order of first appearance, each with the
\* suggestions rendered into it
convertPRSuggestionToComment(suggestions) ==
  LET firsts ==
        SelectSeq([i \in DOMAIN suggestions |-> i],
                  LAMBDA i : \A j \in 1..(i - 1) :
                     suggestions[j].filename # suggestions[i].filename)
  IN  [n \in DOMAIN firsts |->
         [filename |-> suggestions[firsts[n]].filename,
          suggestions |->
            SelectSeq(suggestions,
                      LAMBDA s : s.filename = suggestions[firsts[n]].filename)]]

FixedComment(text) == [kind |-> "fixed", text |-> text, parts |-> <<>>]
RenderedComment(comments) == [kind |-> "rendered", text |-> "", parts |-> comments]
JoinedComment(feedbacks) == [kind |-> "joined", text |-> "", parts |-> feedbacks]

NoSuggestionsComment ==
  FixedComment("The code was reviewed but no specific suggestions were generated. The code appears to follow good practices.")
NoCommentsComment ==
  FixedComment("The code review was completed successfully, but no specific comments were generated.")
ReviewErrorComment == FixedComment("Error occurred during review process")

\* the result with the replies the fallback parser was invoked on
xmlResponseBuilder_wrongDefault(feedbacks) ==
  LET parsedXMLSuggestions == processXMLSuggestions(feedbacks)
      allSuggestions ==
        Flatten([i \in DOMAIN feedbacks |-> fallbackTextParser(feedbacks[i])])
  IN  IF Len(parsedXMLSuggestions) > 0
      THEN [comment |-> RenderedComment(
                          convertPRSuggestionToComment(
                            dedupSuggestions(parsedXMLSuggestions))),
            structuredComments |-> parsedXMLSuggestions,
            fallbackOn |-> {}]
      ELSE IF Len(allSuggestions) > 0
      THEN [comment |-> RenderedComment(
                          convertPRSuggestionToComment(
                            dedupSuggestions(allSuggestions))),
            structuredComments |-> allSuggestions,
            fallbackOn |-> DOMAIN feedbacks]
      ELSE [comment |-> NoCommentsComment,
            structuredComments |-> <<>>,
            fallbackOn |-> DOMAIN feedbacks]

\* the fallback parser invoked on every reply that parsed to nothing
xmlResponseBuilder_perReply(feedbacks) ==
  LET parsedXMLSuggestions == processXMLSuggestions(feedbacks)
      empties == {i \in DOMAIN feedbacks :
                    processXMLSuggestions(<<feedbacks[i]>>) = <<>>}
      allSuggestions ==
        Flatten([i \in DOMAIN feedbacks |->
                   IF i \in empties THEN fallbackTextParser(feedbacks[i])
                   ELSE <<>>])
      both == parsedXMLSuggestions \o allSuggestions
  IN  IF Len(both) > 0
      THEN [comment |-> RenderedComment(
                          convertPRSuggestionToComment(dedupSuggestions(both))),
            structuredComments |-> both,
            fallbackOn |-> empties]
      ELSE [comment |-> NoSuggestionsComment,
            structuredComments |-> <<>>,
            fallbackOn |-> empties]

xmlResponseBuilder(feedbacks) ==
  LET parsedXMLSuggestions == processXMLSuggestions(feedbacks)
      allSuggestions ==
        Flatten([i \in DOMAIN feedbacks |-> fallbackTextParser(feedbacks[i])])
  IN  IF Len(parsedXMLSuggestions) > 0
      THEN [comment |-> RenderedComment(
                          convertPRSuggestionToComment(
                            dedupSuggestions(parsedXMLSuggestions))),
            structuredComments |-> parsedXMLSuggestions,
            fallbackOn |-> {}]
      ELSE IF Len(allSuggestions) > 0
      THEN [comment |-> RenderedComment(
                          convertPRSuggestionToComment(
                            dedupSuggestions(allSuggestions))),
            structuredComments |-> allSuggestions,
            fallbackOn |-> DOMAIN feedbacks]
      ELSE [comment |-> NoSuggestionsComment,
            structuredComments |-> <<>>,
            fallbackOn |-> DOMAIN feedbacks]

basicResponseBuilder(feedbacks) ==
  [comment |-> JoinedComment(feedbacks),
   structuredComments |-> <<>>,
   fallbackOn |-> {}]

\* lines 1118-1127: the strategy pairs, in order
Builders ==
  << [convoBuilder |-> "getXMLReviewPrompt",
      responseBuilder |-> "xmlResponseBuilder"],
     [convoBuilder |-> "getReviewPrompt",
      responseBuilder |-> "basicResponseBuilder"] >>

responseBuilderOf(builder, feedbacks) ==
  IF builder.responseBuilder = "xmlResponseBuilder"
  THEN xmlResponseBuilder(feedbacks)
  ELSE basicResponseBuilder(feedbacks)

\* lines 895-899: Promise.all over the requests of the batches
promiseAll_allSettled(reqs) ==
  IF \E i \in DOMAIN reqs : reqs[i].state = "pending"
  THEN [state |-> "pending", values |-> <<>>]
  ELSE [state |-> "fulfilled",
        values |-> LET done == SelectSeq(reqs, LAMBDA r : r.state = "replied")
                   IN  [i \in DOMAIN done |-> done[i].reply]]

\* the replies in the order the requests completed in
promiseAll_completionOrder(reqs) ==
  IF \E i \in DOMAIN reqs : reqs[i].state = "threw"
  THEN [state |-> "rejected", values |-> <<>>]
  ELSE IF \E i \in DOMAIN reqs : reqs[i].state = "pending"
  THEN [state |-> "pending", values |-> <<>>]
  ELSE [state |-> "fulfilled",
        values |-> [k \in DOMAIN reqs |->
                      reqs[CHOOSE i \in DOMAIN reqs : reqs[i].at = k].reply]]

promiseAll(reqs) ==
  IF \E i \in DOMAIN reqs : reqs[i].state = "threw"
  THEN [state |-> "rejected", values |-> <<>>]
  ELSE IF \E i \in DOMAIN reqs : reqs[i].state = "pending"
  THEN [state |-> "pending", values |-> <<>>]
  ELSE [state |-> "fulfilled", values |-> [i \in DOMAIN reqs |-> reqs[i].reply]]

\* ------------------------------------------------------- the replies drawn
GoodSuggestion(code) ==
  [t |-> "object", describe |-> TextNode("d"), type |-> TextNode("security"),
   comment |-> TextNode("c"), code |-> TextNode(code),
   filename |-> TextNode("a.ts")]

NoCodeSuggestion ==
  [t |-> "object", describe |-> TextNode("d"), type |-> TextNode("security"),
   comment |-> TextNode("c"), code |-> Undef, filename |-> TextNode("a.ts")]

Reply(hasOpen, hasClose, parse, suggestion, blocks) ==
  [hasOpen |-> hasOpen, hasClose |-> hasClose, parse |-> parse,
   suggestion |-> suggestion, blocks |-> blocks]

\* prose only
ProseReply == Reply(FALSE, FALSE, "none", <<>>, <<>>)
\* prose with a fenced block after "path: src/a.go"
BlockReply ==
  Reply(FALSE, FALSE, "none", <<>>, << Block("go", "fix2", "src/a.go", "") >>)
\* "<review>" never closed, with an untagged fenced block
UnclosedReply ==
  Reply(TRUE, FALSE, "none", <<>>, << Block("", "fix1", "", "") >>)
\* a review section the XML parser rejects
MalformedReply == Reply(TRUE, TRUE, "error", <<>>, <<>>)
\* a review section with no suggestion
EmptyReviewReply == Reply(TRUE, TRUE, "ok", <<>>, <<>>)
\* one suggestion, its code fenced
OneSuggestionReply ==
  Reply(TRUE, TRUE, "ok", << GoodSuggestion(" fix1 ") >>,
        << Block("js", "fix1", "", "") >>)
\* two suggestions, the second without a code field
MixedReply ==
  Reply(TRUE, TRUE, "ok", << GoodSuggestion("fix2"), NoCodeSuggestion >>, <<>>)

Replies ==
  {ProseReply, BlockReply, UnclosedReply, MalformedReply, EmptyReviewReply,
   OneSuggestionReply, MixedReply}

\* ------------------------------------------------------ the file lists drawn
\* the lists of at most n files named by a sub-sequence of names; a file the
\* filter keeps has any of the patches, another one a patch of one line
RECURSIVE FileLists(_, _, _)
FileLists(names, patches, n) ==
  IF names = <<>> \/ n = 0 THEN {<<>>}
  ELSE FileLists(Tail(names), patches, n)
       \cup { <<[filename |-> Head(names), patch |-> patch]>> \o rest :
                patch \in (IF filterFile([filename |-> Head(names)])
                           THEN patches ELSE {MkPatch(1, 0)}),
                rest \in FileLists(Tail(names), patches, n - 1) }

\* the planner's inputs
PlanFileLists == FileLists(NamePool, Patches, MaxFiles)

\* the orchestrator's inputs: three names, and for each a small patch, one
\* over the budget even stripped, or one the tokenizer raises on
ReviewNames == << <<"a", "ts">>, <<"b", "ts">>, <<"d", "">> >>

ReviewPatches == {MkPatch(2, 0), MkPatch(MaxAdded, 0), SpecialPatch}

ReviewFileLists == FileLists(ReviewNames, ReviewPatches, MaxFiles)

\* ------------------------------------------------------------------- state
VARIABLES
  files,         \* the file list reviewChangesRetry was called with
  pc,            \* "start", "awaiting", "raised" or "done"
  builderIndex,  \* the strategy pair of the running reviewChanges call
  tried,         \* the strategy pairs reviewChanges was called with, in order
  groups,        \* line 892: the batches of the running reviewChanges call
  requests,      \* the reviewFiles call of each batch; at: completed as the at-th
  builderCalls,  \* how often a response builder was invoked
  feedbacks,     \* the replies the response builder was invoked on
  fallbackOn,    \* the replies fallbackTextParser was invoked on
  reviewResult,  \* what reviewChanges returned
  outcome,       \* of reviewChangesRetry: "running", "returned" or "raised"
  input,         \* the arguments of the function called on its own
  output,        \* what that function returned
  inlineCalls    \* processPullRequest: the generateInlineComments calls

vars ==
  << files, pc, builderIndex, tried, groups, requests, builderCalls, feedbacks,
     fallbackOn, reviewResult, outcome, input, output, inlineCalls >>

\* what the review of the change set leaves alone
calledAlone == << input, output, inlineCalls >>

NoInput == [fn |-> "none"]

NoOutput == [t |-> "undefined"]

NoResult == [comment |-> [kind |-> "none", text |-> "", parts |-> <<>>],
             structuredComments |-> <<>>]

ErrorResult == [comment |-> ReviewErrorComment, structuredComments |-> <<>>]

Pending == [state |-> "pending", reply |-> <<>>, at |-> 0]

\* how many of the requests have completed
completedCount(reqs) ==
  Cardinality({i \in DOMAIN reqs : reqs[i].state # "pending"})

InitOver(lists) ==
  /\ files \in lists
  /\ pc = "start"
  /\ builderIndex = 1
  /\ tried = <<>>
  /\ groups = <<>>
  /\ requests = <<>>
  /\ builderCalls = 0
  /\ feedbacks = <<>>
  /\ fallbackOn = {}
  /\ reviewResult = NoResult
  /\ outcome = "running"
  /\ input = NoInput
  /\ output = NoOutput
  /\ inlineCalls = <<>>

Init == InitOver(ReviewFileLists)

InitPlan == InitOver(PlanFileLists)

\* reviewChanges, lines 855-899: plan the batches and issue their requests
ReviewChangesPlan ==
  /\ pc = "start"
  /\ ~planRaises(files)
  /\ tried' = Append(tried, builderIndex)
  /\ groups' = planGroups(files, Builders[builderIndex].convoBuilder)
  /\ requests' = [i \in DOMAIN groups' |-> Pending]
  /\ pc' = "awaiting"
  /\ UNCHANGED << files, builderIndex, builderCalls, feedbacks, fallbackOn,
                  reviewResult, outcome >>
  /\ UNCHANGED calledAlone

\* reviewChanges, line 858: the tokenizer raises before the try block
ReviewChangesRaises ==
  /\ pc = "start"
  /\ planRaises(files)
  /\ tried' = Append(tried, builderIndex)
  /\ pc' = "raised"
  /\ UNCHANGED << files, builderIndex, groups, requests, builderCalls,
                  feedbacks, fallbackOn, reviewResult, outcome >>
  /\ UNCHANGED calledAlone

\* reviewFiles of batch i returns the reply of the completion service; a
\* request still in flight when reviewChanges has returned completes too
RequestReplies(i, reply) ==
  /\ pc \in {"awaiting", "done"}
  /\ requests[i].state = "pending"
  /\ requests' = [requests EXCEPT
                    ![i] = [state |-> "replied", reply |-> reply,
                            at |-> completedCount(requests) + 1]]
  /\ UNCHANGED << files, pc, builderIndex, tried, groups, builderCalls,
                  feedbacks, fallbackOn, reviewResult, outcome >>
  /\ UNCHANGED calledAlone

\* reviewFiles of batch i raises
RequestThrows(i) ==
  /\ pc \in {"awaiting", "done"}
  /\ requests[i].state = "pending"
  /\ requests' = [requests EXCEPT
                    ![i] = [state |-> "threw", reply |-> <<>>,
                            at |-> completedCount(requests) + 1]]
  /\ UNCHANGED << files, pc, builderIndex, tried, groups, builderCalls,
                  feedbacks, fallbackOn, reviewResult, outcome >>
  /\ UNCHANGED calledAlone

\* lines 895-902 and 1066: every request replied; the response builder runs
\* and reviewChangesRetry returns its result
GatherAndBuild ==
  /\ pc = "awaiting"
  /\ promiseAll(requests).state = "fulfilled"
  /\ LET built == responseBuilderOf(Builders[builderIndex],
                                    promiseAll(requests).values)
     IN  /\ feedbacks' = promiseAll(requests).values
         /\ fallbackOn' = built.fallbackOn
         /\ reviewResult' = [comment |-> built.comment,
                             structuredComments |-> built.structuredComments]
  /\ builderCalls' = builderCalls + 1
  /\ pc' = "done"
  /\ outcome' = "returned"
  /\ UNCHANGED << files, builderIndex, tried, groups, requests >>
  /\ UNCHANGED calledAlone

\* lines 911-917 and 1066: a request raised; reviewChanges returns the error
\* result and reviewChangesRetry returns it
CatchRequestError ==
  /\ pc = "awaiting"
  /\ promiseAll(requests).state = "rejected"
  /\ reviewResult' = ErrorResult
  /\ pc' = "done"
  /\ outcome' = "returned"
  /\ UNCHANGED << files, builderIndex, tried, groups, requests, builderCalls,
                  feedbacks, fallbackOn >>
  /\ UNCHANGED calledAlone

\* reviewChangesRetry, lines 1067-1071: log and go on with the next pair
RetryNext ==
  /\ pc = "raised"
  /\ builderIndex < Len(Builders)
  /\ builderIndex' = builderIndex + 1
  /\ pc' = "start"
  /\ UNCHANGED << files, tried, groups, requests, builderCalls, feedbacks,
                  fallbackOn, reviewResult, outcome >>
  /\ UNCHANGED calledAlone

\* reviewChangesRetry, line 1073: "All convoBuilders failed."
RetryExhausted ==
  /\ pc = "raised"
  /\ builderIndex = Len(Builders)
  /\ pc' = "done"
  /\ outcome' = "raised"
  /\ UNCHANGED << files, builderIndex, tried, groups, requests, builderCalls,
                  feedbacks, fallbackOn, reviewResult >>
  /\ UNCHANGED calledAlone

Next ==
  \/ ReviewChangesPlan
  \/ ReviewChangesRaises
  \/ \E i \in DOMAIN requests : \E reply \in Replies : RequestReplies(i, reply)
  \/ \E i \in DOMAIN requests : RequestThrows(i)
  \/ GatherAndBuild
  \/ CatchRequestError
  \/ RetryNext
  \/ RetryExhausted

Spec == Init /\ [][Next]_vars

\* the planner alone, over every file list of the bounds
SpecPlan == InitPlan /\ [][ReviewChangesPlan]_vars

\* ------------------------------------------------------------- properties
Planned == pc = "awaiting"

convoBuilderNow == Builders[builderIndex].convoBuilder

\* how often a file of that name stands in a batch
occurrences(name) ==
  Cardinality({ij \in {<<i, j>> : i \in DOMAIN groups, j \in 1..MaxFiles + 1} :
                 /\ ij[2] \in DOMAIN groups[ij[1]]
                 /\ groups[ij[1]][ij[2]].filename = name})

\* over the budget alone, and still so once its removed lines are stripped
stillOversized(file) ==
  /\ ~fitsAloneIn(convoBuilderNow, file)
  /\ ~fitsAloneIn(convoBuilderNow, stripRemovedLines(file))

\* C1: once the batches are planned, every file the filter keeps stands in
\* exactly one batch, or in none and is over the budget alone even stripped.
C1_Coverage ==
  Planned =>
    \A i \in DOMAIN filteredFilesOf(files) :
      LET file == filteredFilesOf(files)[i]
      IN  occurrences(file.filename) = (IF stillOversized(file) THEN 0 ELSE 1)

\* C2: the conversation rendered from every planned batch is within the
\* limit: its token estimate is strictly below the capacity of the model.
C2_Budget ==
  Planned =>
    \A i \in DOMAIN groups :
      isConversationWithinLimit(constructPrompt(groups[i], convoBuilderNow))

\* a greedy split happened: a batch is followed by the batch seeded by the
\* file that did not fit into it
C2_Witness ==
  /\ Planned
  /\ \E i \in DOMAIN groups :
       /\ i + 1 \in DOMAIN groups
       /\ groups[i] # <<>> /\ groups[i + 1] # <<>>
       /\ ~isConversationWithinLimit(
             constructPrompt(Append(groups[i], groups[i + 1][1]),
                             convoBuilderNow))

\* C3: whenever the filter keeps at least one file, no planned batch is an
\* empty file list.
C3_NonEmptyBatches ==
  (Planned /\ Len(filteredFilesOf(files)) > 0) =>
    \A i \in DOMAIN groups : groups[i] # <<>>

\* C4: when the filter keeps three files, two of which fit the budget
\* together while the third is over it alone even stripped, the plan is the
\* one batch of the two.
C4_OversizedExcluded ==
  LET filtered == filteredFilesOf(files)
      fitting == SelectSeq(filtered, LAMBDA file : ~stillOversized(file))
  IN  ( /\ Planned
        /\ Len(filtered) = 3
        /\ Len(fitting) = 2
        /\ isConversationWithinLimit(constructPrompt(fitting, convoBuilderNow)) )
      => groups = << fitting >>

\* C5: when reviewChangesRetry is done and every completion request of the
\* pair it ran raised, it has raised the exhaustion failure and returned no
\* review result.
C5_Exhaustion ==
  ( /\ pc = "done"
    /\ requests # <<>>
    /\ \A i \in DOMAIN requests : requests[i].state = "threw" )
  => (outcome = "raised" /\ reviewResult = NoResult)

\* C6: the result reviewChangesRetry returns comes from a pair none of whose
\* completion requests raised, and a later pair is run only when the pair
\* before it raised.
C6_FirstPairNotRaising ==
  /\ (pc = "done" /\ outcome = "returned") =>
       \A i \in DOMAIN requests : requests[i].state # "threw"
  /\ Len(tried) > 1 => planRaises(files)

\* the first pair got every reply and neither parser found a suggestion
FirstPairYieldsNothing ==
  /\ pc = "done"
  /\ builderCalls > 0
  /\ Builders[builderIndex].responseBuilder = "xmlResponseBuilder"
  /\ processXMLSuggestions(feedbacks) = <<>>
  /\ \A i \in DOMAIN feedbacks : fallbackTextParser(feedbacks[i]) = <<>>

\* C7 as claimed: when the first pair yields no suggestion, the second pair
\* is run and the review returned is the one of its basic response builder.
C7_RetryOnNothing ==
  FirstPairYieldsNothing =>
    (tried = <<1, 2>> /\ reviewResult.comment.kind = "joined")

\* C7 as amended: when the first pair yields no suggestion, reviewChangesRetry
\* returns the fixed no-suggestions comment with an empty suggestion list and
\* no other pair is run.
C7_DefaultOnNothing ==
  FirstPairYieldsNothing =>
    /\ outcome = "returned"
    /\ tried = <<1>>
    /\ reviewResult = [comment |-> NoSuggestionsComment,
                       structuredComments |-> <<>>]

C7_Witness == FirstPairYieldsNothing /\ Len(feedbacks) >= 2

\* C8: once a request has raised, no response builder is ever invoked and
\* the value returned is the fixed error result; a response builder is only
\* invoked on the replies of all batches, reply i that of batch i.
C8_NoPartialResults ==
  /\ (\E i \in DOMAIN requests : requests[i].state = "threw") =>
       /\ builderCalls = 0
       /\ pc = "done" => (outcome = "returned" /\ reviewResult = ErrorResult)
  /\ builderCalls > 0 =>
       /\ Len(feedbacks) = Len(groups)
       /\ \A i \in DOMAIN requests :
            requests[i].state = "replied" /\ feedbacks[i] = requests[i].reply

C8_Witness ==
  /\ pc = "done"
  /\ Len(requests) >= 2
  /\ \E i \in DOMAIN requests : requests[i].state = "threw"
  /\ \E i \in DOMAIN requests :
       requests[i].state = "replied" /\ requests[i].reply = OneSuggestionReply

\* C9: the XML response builder invokes the fallback parser on a reply if and
\* only if the structured parser returned no suggestion over all replies;
\* when it returned one, no suggestion the fallback parser yields for any
\* reply is in the result.
C9_FallbackGating ==
  (builderCalls > 0
     /\ Builders[builderIndex].responseBuilder = "xmlResponseBuilder") =>
    LET total == Len(processXMLSuggestions(feedbacks))
    IN  /\ \A i \in DOMAIN feedbacks : (i \in fallbackOn) <=> (total = 0)
        /\ total > 0 =>
             \A i \in DOMAIN feedbacks :
               \A j \in DOMAIN fallbackTextParser(feedbacks[i]) :
                 fallbackTextParser(feedbacks[i])[j]
                   \notin Range(reviewResult.structuredComments)

\* the structured parser found a suggestion while another reply, with a
\* fenced block, parsed to nothing
C9_Witness ==
  /\ builderCalls > 0
  /\ Builders[builderIndex].responseBuilder = "xmlResponseBuilder"
  /\ Len(processXMLSuggestions(feedbacks)) > 0
  /\ \E i \in DOMAIN feedbacks :
       /\ ~feedbacks[i].hasOpen
       /\ fallbackTextParser(feedbacks[i]) # <<>>

\* the suggestions the reply itself holds: none without both container tags
\* or when the structural parse fails
suggestionsParsedFrom(reply) ==
  IF ~reply.hasOpen \/ ~reply.hasClose \/ reply.parse # "ok" THEN <<>>
  ELSE Flatten([i \in DOMAIN reply.suggestion |-> toSuggestion(reply.suggestion[i])])

\* C10: over the replies the builder was given, processXMLSuggestions returns
\* the suggestions of every reply, in order: none for a reply without the
\* container tags or whose parse fails, all of them for every other reply.
C10_ParseIsolation ==
  builderCalls > 0 =>
    processXMLSuggestions(feedbacks)
      = Flatten([i \in DOMAIN feedbacks |-> suggestionsParsedFrom(feedbacks[i])])

C10_Witness ==
  /\ builderCalls > 0
  /\ \E i \in DOMAIN feedbacks : feedbacks[i] = MalformedReply
  /\ \E i \in DOMAIN feedbacks : feedbacks[i] = UnclosedReply
  /\ \E i \in DOMAIN feedbacks : feedbacks[i] = MixedReply
  /\ Len(processXMLSuggestions(feedbacks)) = 1

\* ------------------------------------------- processXMLSuggestions alone
\* the shapes a code field arrives in
CodeShapes ==
  { Undef, Null, Str(""), Str(" "), Str("fix1"), Arr(<<>>), Arr(<<Null>>),
    Arr(<<Str("")>>), Arr(<<Str(" ")>>), Arr(<<Str("fix1")>>),
    TextNode("fix1"), TextNode(" fix1 "), TextNode(""), Obj("fix1"), Obj(""),
    Attrs, Bare, Arr(<<Attrs>>) }

\* the shapes the text s of another field arrives in
FieldShapes(s) == { Str(s), Arr(<<Str(s)>>), Arr(<<Obj(s)>>), Obj(s) }

\* the element of result.review.suggestion of those fields
RawSuggestion(describe, type, comment, code, filename) ==
  [t |-> "object", describe |-> describe, type |-> type, comment |-> comment,
   code |-> code, filename |-> filename]

RawSuggestions ==
  { RawSuggestion(describe, type, comment, code, filename) :
      describe \in FieldShapes("d"), type \in FieldShapes("security"),
      comment \in FieldShapes("c"), code \in CodeShapes,
      filename \in FieldShapes("a.ts") }

\* nothing but the function called on its own is in progress
ReviewIdle ==
  /\ files = <<>>
  /\ pc = "start"
  /\ builderIndex = 1
  /\ tried = <<>>
  /\ groups = <<>>
  /\ requests = <<>>
  /\ builderCalls = 0
  /\ feedbacks = <<>>
  /\ fallbackOn = {}
  /\ reviewResult = NoResult
  /\ outcome = "running"

reviewVars ==
  << files, pc, builderIndex, tried, groups, requests, builderCalls, feedbacks,
     fallbackOn, reviewResult, outcome >>

InitParse ==
  /\ ReviewIdle
  /\ input \in { [fn |-> "processXMLSuggestions",
                  feedbacks |-> << Reply(TRUE, TRUE, "ok", <<raw>>, <<>>) >>] :
                 raw \in RawSuggestions }
  /\ output = NoOutput
  /\ inlineCalls = <<>>

\* processXMLSuggestions(feedbacks) returns
ParseFeedbacks ==
  /\ input.fn = "processXMLSuggestions"
  /\ output = NoOutput
  /\ output' = [t |-> "suggestions", v |-> processXMLSuggestions(input.feedbacks)]
  /\ UNCHANGED << reviewVars, input, inlineCalls >>

SpecParse == InitParse /\ [][ParseFeedbacks]_vars

\* the one raw suggestion of the reply parsed
rawParsed == input.feedbacks[1].suggestion[1]

\* C11: every suggestion processXMLSuggestions returns has a code text that
\* is not empty.
C11_NonEmptyCode ==
  output.t = "suggestions" =>
    \A i \in DOMAIN output.v : output.v[i].code # ""

\* C12: whichever shape the describe, type, comment and filename fields of a
\* parsed suggestion arrive in, the fields of the suggestion created are the
\* raw texts of those fields.
C12_FieldsNormalized ==
  (output.t = "suggestions" /\ output.v # <<>>) =>
    /\ output.v[1].describe = "d"
    /\ output.v[1].type = "security"
    /\ output.v[1].comment = "c"
    /\ output.v[1].filename = "a.ts"

\* ------------------------------------------------ dedupSuggestions alone
MaxSuggestions == 3

\* suggestions of two files, two of them differing in the code alone
SuggestionPool ==
  { PRSuggestionImpl("d", "security", "c", code, filename) :
      code \in {"fix1", "fix2"}, filename \in {"a.ts", "b.ts"} }

RECURSIVE SuggestionLists(_)
SuggestionLists(n) ==
  IF n = 0 THEN {<<>>}
  ELSE SuggestionLists(n - 1)
       \cup { Append(list, suggestion) :
                list \in {l \in SuggestionLists(n - 1) : Len(l) = n - 1},
                suggestion \in SuggestionPool }

InitDedup ==
  /\ ReviewIdle
  /\ input \in { [fn |-> "dedupSuggestions", suggestions |-> list] :
                 list \in SuggestionLists(MaxSuggestions) }
  /\ output = NoOutput
  /\ inlineCalls = <<>>

\* dedupSuggestions(suggestions) returns
DedupSuggestions ==
  /\ input.fn = "dedupSuggestions"
  /\ output = NoOutput
  /\ output' = [t |-> "deduped", v |-> dedupSuggestions(input.suggestions)]
  /\ UNCHANGED << reviewVars, input, inlineCalls >>

\* dedupSuggestions called on the list it returned
DedupAgain ==
  /\ input.fn = "dedupSuggestions"
  /\ output.t = "deduped"
  /\ output' = [t |-> "dedupedAgain", v |-> dedupSuggestions(output.v),
                once |-> output.v]
  /\ UNCHANGED << reviewVars, input, inlineCalls >>

NextDedup ==
  \/ DedupSuggestions
  \/ DedupAgain

SpecDedup == InitDedup /\ [][NextDedup]_vars

identitiesOf(suggestions) ==
  { identity(suggestions[i]) : i \in DOMAIN suggestions }

\* C13: the list dedupSuggestions returns holds exactly one record for every
\* identity of its input, and a second application returns the same list.
C13_DedupByIdentity ==
  /\ output.t \in {"deduped", "dedupedAgain"} =>
       /\ \A i, j \in DOMAIN output.v :
            identity(output.v[i]) = identity(output.v[j]) => i = j
       /\ identitiesOf(output.v) = identitiesOf(input.suggestions)
  /\ output.t = "dedupedAgain" => output.v = output.once

\* a list holding two suggestions of identical fields and one other of the
\* same file was deduplicated twice
C13_Witness ==
  /\ output.t = "dedupedAgain"
  /\ Len(output.v) = 2
  /\ Len(input.suggestions) = 3
  /\ output.v[1].filename = output.v[2].filename

\* the suggestions rendered into the comment of the review result
renderedSuggestions ==
  Flatten([n \in DOMAIN reviewResult.comment.parts |->
             reviewResult.comment.parts[n].suggestions])

\* C14: the suggestion list of the result xmlResponseBuilder returned holds
\* no two suggestions of equal identity and is, record for record, the list
\* rendered into the comment.
C14_ListIsRendered ==
  (pc = "done" /\ reviewResult.comment.kind = "rendered") =>
    /\ \A i, j \in DOMAIN reviewResult.structuredComments :
         identity(reviewResult.structuredComments[i])
           = identity(reviewResult.structuredComments[j]) => i = j
    /\ Len(reviewResult.structuredComments) = Len(renderedSuggestions)
    /\ identitiesOf(reviewResult.structuredComments)
         = identitiesOf(renderedSuggestions)

\* ------------------------------------------- generateGithubIssueUrl alone
(* A string by its length and its characters: "plain" ones that            *)
(* encodeURIComponent leaves alone, "escaped" ones it writes as %XX, or    *)
(* "malformed" when it raises on the text (a lone surrogate).              *)
Text(len, kind) == [len |-> len, kind |-> kind]

\* an owner or repository name: its length and whether /^[a-zA-Z0-9-_.]+$/
\* matches it
RepoPart(len, wellFormed) == [len |-> len, wellFormed |-> wellFormed]

MaxTitle == 200
MaxBody == 5000
MaxCodeBlock == 10000
MaxUrl == 2048

Min(a, b) == IF a < b THEN a ELSE b

\* s.substring(0, n)
substring(s, n) == Text(Min(s.len, n), s.kind)

\* the length of encodeURIComponent(s)
encodedLength(s) == IF s.kind = "escaped" THEN 3 * s.len ELSE s.len

\* the length of "https://github.com/" owner "/" repoName
\* "/issues/new?title=" ... "&body=" ...
urlLength(owner, repoName, encodedTitle, encodedBody, encodedCodeBlock) ==
  19 + owner.len + 1 + repoName.len + 18 + encodedTitle + 6 + encodedBody
     + encodedCodeBlock

FallbackLink == [t |-> "link", urlLength |-> 18, withCode |-> FALSE]

generateGithubIssueUrl(owner, repoName, title, body, codeblock) ==
  IF owner.len = 0 \/ repoName.len = 0 THEN FallbackLink
  ELSE IF ~owner.wellFormed \/ ~repoName.wellFormed THEN FallbackLink
  ELSE
    LET sanitizedTitle == substring(title, MaxTitle)
        sanitizedBody == substring(body, MaxBody)
        sanitizedCodeBlock == substring(codeblock, MaxCodeBlock)
        raises == \/ (sanitizedTitle.len > 0
                      /\ sanitizedTitle.kind = "malformed")
                  \/ (sanitizedBody.len > 0
                      /\ sanitizedBody.kind = "malformed")
                  \/ (sanitizedCodeBlock.len > 0
                      /\ sanitizedCodeBlock.kind = "malformed")
        encodedTitle == encodedLength(sanitizedTitle)
        encodedBody == encodedLength(sanitizedBody)
        encodedCodeBlock ==
          IF sanitizedCodeBlock.len > 0
          THEN 3 + encodedLength(sanitizedCodeBlock) + 3
          ELSE 0
        url == urlLength(owner, repoName, encodedTitle, encodedBody,
                         encodedCodeBlock)
    IN  IF raises THEN FallbackLink
        ELSE IF url > MaxUrl
        THEN [t |-> "link",
              urlLength |-> urlLength(owner, repoName, encodedTitle,
                                      encodedBody, 0),
              withCode |-> FALSE]
        ELSE [t |-> "link", urlLength |-> url,
              withCode |-> sanitizedCodeBlock.len > 0]

TextKinds == {"plain", "escaped", "malformed"}

RepoParts == {RepoPart(0, TRUE), RepoPart(5, TRUE), RepoPart(5, FALSE)}

InitUrl ==
  /\ ReviewIdle
  /\ input \in
       { [fn |-> "generateGithubIssueUrl", owner |-> owner,
          repoName |-> repoName, title |-> Text(titleLen, titleKind),
          body |-> Text(bodyLen, bodyKind),
          codeblock |-> Text(codeLen, codeKind)] :
           owner \in RepoParts, repoName \in {RepoPart(5, TRUE)},
           titleLen \in {0, 20, MaxTitle + 50}, titleKind \in TextKinds,
           bodyLen \in {0, 100, 600, MaxUrl, MaxBody + 50},
           bodyKind \in {"plain", "escaped"},
           codeLen \in {0, 100, 600, MaxUrl, MaxCodeBlock + 50},
           codeKind \in TextKinds }
  /\ output = NoOutput
  /\ inlineCalls = <<>>

\* generateGithubIssueUrl(owner, repoName, title, body, codeblock) returns
GenerateIssueUrl ==
  /\ input.fn = "generateGithubIssueUrl"
  /\ output = NoOutput
  /\ output' = generateGithubIssueUrl(input.owner, input.repoName, input.title,
                                      input.body, input.codeblock)
  /\ UNCHANGED << reviewVars, input, inlineCalls >>

SpecUrl == InitUrl /\ [][GenerateIssueUrl]_vars

\* C15: the URL of the link generateGithubIssueUrl returns is at most 2048
\* characters long, also when it was regenerated without the code block.
C15_UrlCapped ==
  output.t = "link" => output.urlLength <= MaxUrl

\* ------------------------------------------------ generateInlineComments
MaxLines == 2

(* A text is the sequence of its lines, a line its leading blanks and what *)
(* follows them; a line of blanks only has the text "".                    *)
Line(indent, text) == [indent |-> indent, text |-> text]

RECURSIVE dropBlankHead(_)
dropBlankHead(lines) ==
  IF lines # <<>> /\ Head(lines).text = "" THEN dropBlankHead(Tail(lines))
  ELSE lines

RECURSIVE dropBlankTail(_)
dropBlankTail(lines) ==
  IF lines # <<>> /\ Last(lines).text = ""
  THEN dropBlankTail(SubSeq(lines, 1, Len(lines) - 1))
  ELSE lines

\* String.prototype.trim of the joined lines
trimText(lines) ==
  LET kept == dropBlankTail(dropBlankHead(lines))
  IN  IF kept = <<>> THEN <<>>
      ELSE << Line(0, kept[1].text) >> \o Tail(kept)

\* Array.prototype.slice(start, end)
slice(lines, start, end) ==
  LET len == Len(lines)
      from == IF start < 0 THEN (IF len + start < 0 THEN 0 ELSE len + start)
              ELSE Min(start, len)
      to == IF end < 0 THEN (IF len + end < 0 THEN 0 ELSE len + end)
            ELSE Min(end, len)
  IN  SubSeq(lines, from + 1, to)

\* lines 920-947
indentCodeFix(file, code, lineStart) ==
  IF lineStart < 1 \/ lineStart > Len(file) THEN code
  ELSE LET indentation == file[lineStart].indent
       IN  [i \in DOMAIN code |->
              Line(indentation + code[i].indent, code[i].text)]

\* lines 949-962
isCodeSuggestionNew(contents, suggestion) ==
  LET targetLines == slice(contents, suggestion.line_start - 1,
                           suggestion.line_end)
  IN  trimText(targetLines) # trimText(suggestion.correction)

(* What the completion service does to the request of one inline fix: the  *)
(* request raises, the reply has no function call, its arguments are no    *)
(* JSON, they are the JSON null, or they are an object whose code is a     *)
(* text or missing and whose line bounds are numbers, texts or missing.    *)
Throws == [kind |-> "throws"]
NoFunctionCall == [kind |-> "noFunctionCall"]
BadJson == [kind |-> "badJson"]
JsonNull == [kind |-> "jsonNull"]
Num(n) == [t |-> "number", n |-> n]
Args(code, lineStart, lineEnd) ==
  [kind |-> "args", code |-> code, lineStart |-> lineStart,
   lineEnd |-> lineEnd]

NoFix == [t |-> "null"]

Returned(value) == [raised |-> FALSE, value |-> value]

\* the request raising is not caught
generateInlineComments_noCatch(contents, completion) ==
  IF contents.t # "string" \/ contents.lines = <<>> THEN Returned(NoFix)
  ELSE IF completion.kind \in {"throws", "noFunctionCall", "jsonNull"}
  THEN [raised |-> TRUE, value |-> NoFix]
  ELSE IF completion.kind = "badJson" THEN Returned(NoFix)
  ELSE IF \/ completion.code.t # "string"
          \/ completion.code.lines = <<>>
          \/ completion.lineStart.t # "number"
          \/ completion.lineEnd.t # "number"
  THEN Returned(NoFix)
  ELSE LET codeFix ==
             [t |-> "fix",
              line_start |-> completion.lineStart.n,
              line_end |-> completion.lineEnd.n,
              correction |-> indentCodeFix(contents.lines,
                                           completion.code.lines,
                                           completion.lineStart.n)]
       IN  IF isCodeSuggestionNew(contents.lines, codeFix)
           THEN Returned(codeFix)
           ELSE Returned(NoFix)

\* lines 964-1025
generateInlineComments(contents, completion) ==
  IF contents.t # "string" \/ contents.lines = <<>> THEN Returned(NoFix)
  ELSE IF completion.kind \in {"throws", "noFunctionCall", "jsonNull"}
  THEN Returned(NoFix)
  ELSE IF completion.kind = "badJson" THEN Returned(NoFix)
  ELSE IF \/ completion.code.t # "string"
          \/ completion.code.lines = <<>>
          \/ completion.lineStart.t # "number"
          \/ completion.lineEnd.t # "number"
  THEN Returned(NoFix)
  ELSE LET codeFix ==
             [t |-> "fix",
              line_start |-> completion.lineStart.n,
              line_end |-> completion.lineEnd.n,
              correction |-> indentCodeFix(contents.lines,
                                           completion.code.lines,
                                           completion.lineStart.n)]
       IN  IF isCodeSuggestionNew(contents.lines, codeFix)
           THEN Returned(codeFix)
           ELSE Returned(NoFix)

\* the current contents of the file: null, or a text of MaxLines lines
NoContents == [t |-> "null"]
Contents(lines) == [t |-> "string", lines |-> lines]

LinePool == {Line(0, "x"), Line(2, "y"), Line(0, "")}

RECURSIVE LineLists(_)
LineLists(n) ==
  IF n = 0 THEN {<<>>}
  ELSE {Append(lines, line) : lines \in LineLists(n - 1), line \in LinePool}

ContentsPool == {NoContents} \cup {Contents(lines) : lines \in LineLists(MaxLines)}

\* the code of a proposal: one line, two lines, or blanks only
CodePool ==
  { Contents(<<Line(0, "x")>>), Contents(<<Line(0, "x"), Line(2, "y")>>),
    Contents(<<Line(1, "")>>) }

\* completions no fix can be read from
MalformedCompletions ==
  { Throws, NoFunctionCall, BadJson, JsonNull,
    Args(Undef, Num(1), Num(1)), Args(Contents(<<>>), Num(1), Num(1)),
    Args(Contents(<<Line(0, "x")>>), Undef, Num(1)),
    Args(Contents(<<Line(0, "x")>>), Str("1"), Num(1)),
    Args(Contents(<<Line(0, "x")>>), Num(1), Undef),
    Args(Contents(<<Line(0, "x")>>), Num(1), Str("1")) }

\* completions with a code and numbers as line bounds
WellFormedCompletions ==
  { Args(code, Num(lineStart), Num(lineEnd)) :
      code \in CodePool, lineStart \in (0 - 1)..(MaxLines + 1),
      lineEnd \in 0..(MaxLines + 1) }

Completions == MalformedCompletions \cup WellFormedCompletions

\* processPullRequest, lines 1129-1145: the suggestions of the review, by
\* whether files holds a file of their name
StructuredLists == { <<TRUE>>, <<TRUE, TRUE>>, <<TRUE, FALSE>> }

PendingCall == [state |-> "pending"]

InitInline ==
  /\ ReviewIdle
  /\ input \in { [fn |-> "processPullRequest", contents |-> contents,
                  structuredComments |-> list] :
                 contents \in ContentsPool, list \in StructuredLists }
  /\ output = NoOutput
  /\ inlineCalls = [i \in DOMAIN input.structuredComments |-> PendingCall]

\* lines 1135-1142: no file of the suggestion's name; null without a call
NoFileOfSuggestion(i) ==
  /\ input.fn = "processPullRequest"
  /\ inlineCalls[i].state = "pending"
  /\ ~input.structuredComments[i]
  /\ inlineCalls' = [inlineCalls EXCEPT ![i] =
                       [state |-> "done", called |-> FALSE,
                        result |-> Returned(NoFix)]]
  /\ UNCHANGED << reviewVars, input, output >>

\* generateInlineComments of suggestion i completes
InlineCommentsReturn(i, completion) ==
  /\ input.fn = "processPullRequest"
  /\ inlineCalls[i].state = "pending"
  /\ input.structuredComments[i]
  /\ inlineCalls' = [inlineCalls EXCEPT ![i] =
                       [state |-> "done", called |-> TRUE,
                        completion |-> completion,
                        result |-> generateInlineComments(input.contents,
                                                          completion)]]
  /\ UNCHANGED << reviewVars, input, output >>

\* lines 1133-1156 and 1174-1180: Promise.all of the calls, the nulls
\* filtered out; a call that raised makes processPullRequest return nothing
GatherInlineComments ==
  /\ input.fn = "processPullRequest"
  /\ output = NoOutput
  /\ \A i \in DOMAIN inlineCalls : inlineCalls[i].state = "done"
  /\ output' =
       IF \E i \in DOMAIN inlineCalls : inlineCalls[i].result.raised
       THEN [t |-> "pullRequest", review |-> FALSE, suggestions |-> <<>>]
       ELSE LET inlineComments ==
                  [i \in DOMAIN inlineCalls |-> inlineCalls[i].result.value]
            IN  [t |-> "pullRequest", review |-> TRUE,
                 suggestions |->
                   SelectSeq(inlineComments, LAMBDA c : c # NoFix)]
  /\ UNCHANGED << reviewVars, input, inlineCalls >>

NextInline ==
  \/ \E i \in DOMAIN inlineCalls : NoFileOfSuggestion(i)
  \/ \E i \in DOMAIN inlineCalls : \E completion \in Completions :
       InlineCommentsReturn(i, completion)
  \/ GatherInlineComments

SpecInline == InitInline /\ [][NextInline]_vars

\* the lines of the file numbered from a to b, the first line being 1
linesOfRange(lines, a, b) ==
  SubSeq(lines, IF a < 1 THEN 1 ELSE a, Min(b, Len(lines)))

\* a call of generateInlineComments that has returned
returnedCalls ==
  {i \in DOMAIN inlineCalls :
     inlineCalls[i].state = "done" /\ inlineCalls[i].called}

\* C16: when the code proposed for lines lineStart..lineEnd, re-indented and
\* trimmed, is the trimmed current content of those lines,
\* generateInlineComments returns null.
C16_NoOpSuppressed ==
  \A i \in returnedCalls :
    LET completion == inlineCalls[i].completion
    IN  ( /\ completion \in WellFormedCompletions
          /\ input.contents # NoContents
          /\ trimText(indentCodeFix(input.contents.lines,
                                    completion.code.lines,
                                    completion.lineStart.n))
               = trimText(linesOfRange(input.contents.lines,
                                       completion.lineStart.n,
                                       completion.lineEnd.n)) )
        => inlineCalls[i].result.value = NoFix

\* C17: no call of generateInlineComments raises, a malformed completion
\* gives null, and every fix one call derived is among the suggestions
\* processPullRequest returns, whatever the other calls met.
C17_MalformedNotFatal ==
  /\ \A i \in returnedCalls :
       /\ ~inlineCalls[i].result.raised
       /\ inlineCalls[i].completion \in MalformedCompletions
            => inlineCalls[i].result.value = NoFix
  /\ output.t = "pullRequest" =>
       \A i \in DOMAIN inlineCalls :
         inlineCalls[i].result.value # NoFix =>
           \E k \in DOMAIN output.suggestions :
             output.suggestions[k] = inlineCalls[i].result.value

\* the request of one suggestion raised, the other suggestion's fix was
\* derived, and processPullRequest returned that fix
C17_Witness ==
  /\ output.t = "pullRequest"
  /\ Len(inlineCalls) = 2
  /\ returnedCalls = {1, 2}
  /\ inlineCalls[1].completion = Throws
  /\ inlineCalls[2].result.value # NoFix
  /\ output.suggestions = << inlineCalls[2].result.value >>

\* C18: every fix generateInlineComments returns targets lines of the
\* current file: 1 <= line_start <= line_end <= the number of its lines.
C18_ValidLineRange ==
  \A i \in returnedCalls :
    LET fix == inlineCalls[i].result.value
    IN  fix # NoFix =>
          /\ 1 <= fix.line_start
          /\ fix.line_start <= fix.line_end
          /\ fix.line_end <= Len(input.contents.lines)

\* ------------------------------------ assignLineNumbers, buildPatchPrompt
MaxDiffLines == 4

(* A line of a diff: a hunk header "@@ -a,b +c,d @@" by its c and whether  *)
(* it carries the counts b and d (a hunk of one line is written            *)
(* "@@ -a +c @@"), or a line by its first character: " " (context), "+"    *)
(* (added) or "-" (removed).                                               *)
HunkHeader(c, counts) == [kind |-> "header", c |-> c, counts |-> counts]
DiffLine(first) == [kind |-> "line", first |-> first]

NumberedLine(n, line) == [kind |-> "numbered", n |-> n, line |-> line]

\* lines 100-114: the loop over the lines, newLine being the next number
RECURSIVE numberFrom(_, _)
numberFrom(lines, newLine) ==
  IF lines = <<>> THEN [raised |-> FALSE, lineNumbers |-> <<>>]
  ELSE LET line == Head(lines)
       IN  IF line.kind = "header"
           THEN IF ~line.counts
                THEN [raised |-> TRUE, lineNumbers |-> <<>>]
                ELSE LET rest == numberFrom(Tail(lines), line.c)
                     IN  [raised |-> rest.raised,
                          lineNumbers |-> <<line>> \o rest.lineNumbers]
           ELSE IF line.first # "-"
           THEN LET rest == numberFrom(Tail(lines), newLine + 1)
                IN  [raised |-> rest.raised,
                     lineNumbers |->
                       <<NumberedLine(newLine, line)>> \o rest.lineNumbers]
           ELSE numberFrom(Tail(lines), newLine)

assignLineNumbers(diff) ==
  LET numbered == numberFrom(diff, 0)
  IN  IF numbered.raised THEN [t |-> "raised"]
      ELSE [t |-> "numbered", lineNumbers |-> numbered.lineNumbers]

\* prompts.ts lines 125-131: the strategy the file is rendered with
buildPatchPrompt(file) ==
  IF file.old_contents = "null" THEN "rawPatchStrategy"
  ELSE "smarterContextPatchStrategy"

\* app.ts lines 1047-1059: what getGitFile returned becomes the contents
preprocessFile(file, oldContents, currentContents) ==
  [file EXCEPT !.old_contents = oldContents,
               !.current_contents = currentContents]

DiffLinePool ==
  { HunkHeader(1, TRUE), HunkHeader(20, TRUE), HunkHeader(1, FALSE),
    DiffLine(" "), DiffLine("+"), DiffLine("-") }

\* the diffs of at most n lines that start with a hunk header
RECURSIVE Diffs(_)
Diffs(n) ==
  IF n = 1 THEN { <<h>> : h \in {l \in DiffLinePool : l.kind = "header"} }
  ELSE Diffs(n - 1)
       \cup { Append(diff, line) :
                diff \in {d \in Diffs(n - 1) : Len(d) = n - 1},
                line \in DiffLinePool }

\* the content getGitFile returns: null (no such file at that commit, a
\* binary file, a failed fetch), the empty text or a text
FetchedContents == {"null", "", "text"}

InitRender ==
  /\ ReviewIdle
  /\ input \in
       { [fn |-> "buildSuggestionPrompt", diff |-> diff] :
           diff \in Diffs(MaxDiffLines) }
       \cup
       { [fn |-> "buildPatchPrompt",
          file |-> [filename |-> filename, old_contents |-> "undefined",
                    current_contents |-> "undefined"]] :
           filename \in {"a.ts", "b.ts"} }
  /\ output = NoOutput
  /\ inlineCalls = <<>>

\* buildSuggestionPrompt, prompts.ts lines 119-123
AssignLineNumbers ==
  /\ input.fn = "buildSuggestionPrompt"
  /\ output = NoOutput
  /\ output' = assignLineNumbers(input.diff)
  /\ UNCHANGED << reviewVars, input, inlineCalls >>

\* preprocessFile, app.ts lines 1027-1060: both fetches have returned
PreprocessFile(oldContents, currentContents) ==
  /\ input.fn = "buildPatchPrompt"
  /\ input.file.old_contents = "undefined"
  /\ input' = [input EXCEPT
                 !.file = preprocessFile(input.file, oldContents,
                                         currentContents)]
  /\ UNCHANGED << reviewVars, output, inlineCalls >>

\* buildPatchPrompt on the preprocessed file
BuildPatchPrompt ==
  /\ input.fn = "buildPatchPrompt"
  /\ input.file.old_contents # "undefined"
  /\ output = NoOutput
  /\ output' = [t |-> "strategy", v |-> buildPatchPrompt(input.file)]
  /\ UNCHANGED << reviewVars, input, inlineCalls >>

NextRender ==
  \/ AssignLineNumbers
  \/ \E oldContents \in FetchedContents :
       \E currentContents \in FetchedContents :
         PreprocessFile(oldContents, currentContents)
  \/ BuildPatchPrompt

SpecRender == InitRender /\ [][NextRender]_vars

\* the lines of the diff that are no hunk header and do not start with "-"
retainedOf(diff) ==
  {i \in DOMAIN diff : diff[i].kind = "line" /\ diff[i].first # "-"}

\* the hunk header line i of the diff belongs to
headerOf(diff, i) ==
  CHOOSE h \in 1..i :
    /\ diff[h].kind = "header"
    /\ \A k \in (h + 1)..i : diff[k].kind # "header"

\* the line of the output that line i of the diff is written to
placeOf(diff, i) ==
  Cardinality({k \in 1..i : diff[k].kind = "header" \/ k \in retainedOf(diff)})

\* C19: assignLineNumbers returns, for every diff, the hunk headers unchanged
\* and every retained line with the number c of its hunk's header plus the
\* count of retained lines before it in the hunk; a line starting with "-"
\* gives no line and takes no number.
C19_LineRenumbering ==
  input.fn = "buildSuggestionPrompt" /\ output # NoOutput =>
    /\ output.t = "numbered"
    /\ Len(output.lineNumbers)
         = Cardinality({i \in DOMAIN input.diff :
                          input.diff[i].kind = "header"
                          \/ i \in retainedOf(input.diff)})
    /\ \A i \in DOMAIN input.diff :
         /\ input.diff[i].kind = "header" =>
              output.lineNumbers[placeOf(input.diff, i)] = input.diff[i]
         /\ i \in retainedOf(input.diff) =>
              output.lineNumbers[placeOf(input.diff, i)]
                = NumberedLine(
                    input.diff[headerOf(input.diff, i)].c
                      + Cardinality({k \in retainedOf(input.diff) :
                                       headerOf(input.diff, i) < k /\ k < i}),
                    input.diff[i])

\* C20: buildPatchPrompt renders with the contextual strategy only when the
\* before and the after content of the file are both there; otherwise with
\* the raw strategy.
C20_StrategyChoice ==
  output.t = "strategy" =>
    ( output.v = "smarterContextPatchStrategy"
      <=> (input.file.old_contents # "null"
           /\ input.file.current_contents # "null") )

\* ---------------------------------------------- fallbackTextParser alone
MaxBlocks == 2

\* the fenced blocks of a reply: with or without a language tag, a body that
\* is a code, blanks only or empty, with or without a file name and a usable
\* paragraph in the text before it
BlockPool ==
  { Block(language, code, hint, comment) :
      language \in {"", "go"}, code \in {"fix1", "fix2", " ", ""},
      hint \in {"", "src/a.go"},
      comment \in {"", "This loop allocates on every pass"} }

RECURSIVE BlockLists(_)
BlockLists(n) ==
  IF n = 0 THEN {<<>>}
  ELSE BlockLists(n - 1)
       \cup { Append(list, block) :
                list \in {l \in BlockLists(n - 1) : Len(l) = n - 1},
                block \in BlockPool }

InitFallback ==
  /\ ReviewIdle
  /\ input \in { [fn |-> "fallbackTextParser",
                  text |-> Reply(FALSE, FALSE, "none", <<>>, blocks)] :
                 blocks \in BlockLists(MaxBlocks) }
  /\ output = NoOutput
  /\ inlineCalls = <<>>

\* fallbackTextParser(text) returns
FallbackParse ==
  /\ input.fn = "fallbackTextParser"
  /\ output = NoOutput
  /\ output' = [t |-> "fallback", v |-> fallbackTextParser(input.text)]
  /\ UNCHANGED << reviewVars, input, inlineCalls >>

SpecFallback == InitFallback /\ [][FallbackParse]_vars

\* C21, as claimed: fallbackTextParser returns one suggestion of category
\* "improvement" for every fenced block of the text, blocks with an empty or
\* blank body included.
C21_OnePerBlock ==
  output.t = "fallback" =>
    /\ Len(output.v) = Len(input.text.blocks)
    /\ \A i \in DOMAIN output.v : output.v[i].type = "improvement"

\* the blocks of the text whose body is not empty and not blanks only
codedBlocks == SelectSeq(input.text.blocks, LAMBDA b : b.code \notin {"", " "})

\* C21, amended: fallbackTextParser returns one suggestion of category
\* "improvement" for every fenced block whose body is not empty or blank, in
\* the order of the blocks, carrying the body of its block and the file name
\* hinted before it, if any; a block with an empty or blank body gives none.
C21_OnePerCodedBlock ==
  output.t = "fallback" =>
    /\ Len(output.v) = Len(codedBlocks)
    /\ \A i \in DOMAIN output.v :
         /\ output.v[i].type = "improvement"
         /\ output.v[i].code
              = fencedCode(IF codedBlocks[i].language = "" THEN "js"
                           ELSE codedBlocks[i].language,
                           codedBlocks[i].code)
         /\ codedBlocks[i].hint # "" => output.v[i].filename = codedBlocks[i].hint

\* a text with a blank block before a block of code was parsed to the one
\* suggestion of the second block
C21_Witness ==
  /\ output.t = "fallback"
  /\ Len(input.text.blocks) = 2
  /\ input.text.blocks[1].code = " "
  /\ input.text.blocks[2].code = "fix2"
  /\ Len(output.v) = 1

\* ----------------------------- processXMLSuggestions: the sanitization
MaxTokens == 5

(* The review section of a reply as the sequence of its pieces, letters in *)
(* any case (the patterns are matched with the flag i): "<!DOC" followed   *)
(* by "TYPE" reads "<!DOCTYPE", "<!ENT" followed by "ITY" reads            *)
(* "<!ENTITY"; ">" and the tags end with the character ">"; "~~~" is a     *)
(* fence of three backticks with the line break after it; " x" is any      *)
(* other text.                                                             *)
Pieces ==
  {"<!DOC", "TYPE", "<!ENT", "ITY", ">", " x", "~~~", "<code>", "</code>"}

\* the pieces that end with ">"
endsWithGt(piece) ==
  piece \in {">", "<code>", "</code>", "<review>", "</review>", "]]>"}

\* text.replace(/<!first second[^>]*>/gi, ''): one pass from left to right
RECURSIVE removeDeclarations(_, _, _)
removeDeclarations(text, first, second) ==
  IF text = <<>> THEN <<>>
  ELSE IF /\ Len(text) >= 2
          /\ text[1] = first
          /\ text[2] = second
          /\ \E j \in 3..Len(text) : endsWithGt(text[j])
  THEN LET j == CHOOSE k \in 3..Len(text) :
                  /\ endsWithGt(text[k])
                  /\ \A m \in 3..(k - 1) : ~endsWithGt(text[m])
       IN  removeDeclarations(SubSeq(text, j + 1, Len(text)), first, second)
  ELSE <<Head(text)>> \o removeDeclarations(Tail(text), first, second)

\* lines 379-389: every <code>...</code> loses its fences and is wrapped in
\* a CDATA section
RECURSIVE protectCode(_)
protectCode(text) ==
  IF text = <<>> THEN <<>>
  ELSE IF text[1] = "<code>" /\ \E j \in 2..Len(text) : text[j] = "</code>"
  THEN LET j == CHOOSE k \in 2..Len(text) :
                  /\ text[k] = "</code>"
                  /\ \A m \in 2..(k - 1) : text[m] # "</code>"
           cleanCode == SelectSeq(SubSeq(text, 2, j - 1),
                                  LAMBDA piece : piece # "~~~")
       IN  <<"<code>", "<![CDATA[">> \o cleanCode \o <<"]]>", "</code>">>
           \o protectCode(SubSeq(text, j + 1, Len(text)))
  ELSE <<Head(text)>> \o protectCode(Tail(text))

\* lines 393-398: a pair of fences left in the text becomes a code field
RECURSIVE wrapFenced(_)
wrapFenced(text) ==
  IF text = <<>> THEN <<>>
  ELSE IF text[1] = "~~~" /\ \E j \in 2..Len(text) : text[j] = "~~~"
  THEN LET j == CHOOSE k \in 2..Len(text) :
                  /\ text[k] = "~~~"
                  /\ \A m \in 2..(k - 1) : text[m] # "~~~"
       IN  <<"<code>", "<![CDATA[">> \o SubSeq(text, 2, j - 1)
           \o <<"]]>", "</code>">>
           \o wrapFenced(SubSeq(text, j + 1, Len(text)))
  ELSE <<Head(text)>> \o wrapFenced(Tail(text))

\* lines 370-398: the text parseStringPromise is called with
sanitizeFb(fb) ==
  wrapFenced(
    protectCode(
      removeDeclarations(removeDeclarations(fb, "<!DOC", "TYPE"),
                         "<!ENT", "ITY")))

RECURSIVE PieceLists(_)
PieceLists(n) ==
  IF n = 0 THEN {<<>>}
  ELSE PieceLists(n - 1)
       \cup { Append(list, piece) :
                list \in {l \in PieceLists(n - 1) : Len(l) = n - 1},
                piece \in Pieces }

\* line 368: from the first "<review>" to the last "</review>"
ReviewSection(inner) == <<"<review>">> \o inner \o <<"</review>">>

InitSanitize ==
  /\ ReviewIdle
  /\ input \in { [fn |-> "sanitize", fb |-> ReviewSection(inner)] :
                 inner \in PieceLists(MaxTokens) }
  /\ output = NoOutput
  /\ inlineCalls = <<>>

\* the callback of feedbacks.map up to the call of the XML parser
SanitizeFeedback ==
  /\ input.fn = "sanitize"
  /\ output = NoOutput
  /\ output' = [t |-> "sanitized", v |-> sanitizeFb(input.fb)]
  /\ UNCHANGED << reviewVars, input, inlineCalls >>

SpecSanitize == InitSanitize /\ [][SanitizeFeedback]_vars

\* C22: the text handed to the XML parser holds neither "<!DOCTYPE" nor
\* "<!ENTITY".
C22_NoDeclarations ==
  output.t = "sanitized" =>
    \A i \in 1..(Len(output.v) - 1) :
      /\ ~(output.v[i] = "<!DOC" /\ output.v[i + 1] = "TYPE")
      /\ ~(output.v[i] = "<!ENT" /\ output.v[i + 1] = "ITY")

\* ------------------------------------------ the greedy split of the planner
\* two files of one extension and one of another
SplitNames == << <<"a", "ts">>, <<"b", "ts">>, <<"c", "py">> >>

\* patches that fit alone, and patches that fit alone only once their
\* removed lines are stripped, the longer one keeping fewer lines
SplitPatches == {MkPatch(1, 0), MkPatch(2, 0), MkPatch(3, 1), MkPatch(2, 3)}

InitSplit == InitOver(FileLists(SplitNames, SplitPatches, MaxFiles))

SpecSplit == InitSplit /\ [][ReviewChangesPlan]_vars

\* the file lists processWithinLimitFiles is called with while the batches
\* are planned: the files that fit alone (line 888), and the stripped files
\* that fit alone (line 310) when the stripped files do not fit together
withinLimitCalls ==
  LET filtered == filteredFilesOf(files)
      outside == patchesOutsideModelLimit(filtered, convoBuilderNow)
      stripped == [i \in DOMAIN outside |-> stripRemovedLines(outside[i])]
  IN  { patchesWithinModelLimit(filtered, convoBuilderNow) }
      \cup (IF outside # <<>>
               /\ ~isConversationWithinLimit(
                      constructPrompt(stripped, convoBuilderNow))
            THEN { SelectSeq(stripped,
                             LAMBDA file : fitsAloneIn(convoBuilderNow, file)) }
            ELSE {})

\* the extension groups of those calls that do not fit as a unit
splitGroups ==
  UNION { { groupFilesByExtension(list)[i].files :
              i \in DOMAIN groupFilesByExtension(list) } :
          list \in { l \in withinLimitCalls :
                       ~isConversationWithinLimit(
                           constructPrompt(l, convoBuilderNow)) } }
  \ { g \in UNION { { groupFilesByExtension(list)[i].files :
                        i \in DOMAIN groupFilesByExtension(list) } :
                    list \in withinLimitCalls } :
        isConversationWithinLimit(constructPrompt(g, convoBuilderNow)) }

\* the size of the file as it is rendered
renderedSize(file) == getTokenLength(patchBuilder(file))

\* C23: the batches of an extension group that does not fit as a unit stand
\* in the plan one after the other, hold the files of the group in ascending
\* order of rendered size, and each but the last is maximal: it does not fit
\* together with the first file of the batch after it.
C23_GreedySplit ==
  Planned =>
    \A group \in splitGroups :
      LET batches == groupsOfExtension(group, convoBuilderNow)
          taken == Flatten(batches)
      IN  /\ \E k \in DOMAIN groups :
               /\ k + Len(batches) - 1 <= Len(groups)
               /\ SubSeq(groups, k, k + Len(batches) - 1) = batches
          /\ Range(taken) = Range(group) /\ Len(taken) = Len(group)
          /\ \A n \in 1..(Len(taken) - 1) :
               renderedSize(taken[n]) <= renderedSize(taken[n + 1])
          /\ \A i \in 1..(Len(batches) - 1) :
               /\ batches[i] # <<>>
               /\ ~isConversationWithinLimit(
                      constructPrompt(Append(batches[i], batches[i + 1][1]),
                                      convoBuilderNow))

\* ------------------------------------------------------------ degraded mode
\* the batch records of the plan that carry the name of the file
placedRecords(file) ==
  { rec \in Range(Flatten(groups)) : rec.filename = file.filename }

\* C24: once the batches are planned, a file that is over the budget alone
\* and fits alone with its patch minus exactly the removed lines, the other
\* lines kept in order, stands in a batch with that stripped patch; a file
\* that fits alone stands in the plan with its original patch only; and
\* planning leaves the patches of the caller's files as they were.
C24_DegradedMode ==
  /\ [](Planned =>
          \A i \in DOMAIN filteredFilesOf(files) :
            LET file == filteredFilesOf(files)[i]
                kept == SelectSeq(file.patch, LAMBDA line : line.first # "-")
            IN  IF fitsAloneIn(convoBuilderNow, file)
                THEN \A rec \in placedRecords(file) : rec.patch = file.patch
                ELSE fitsAloneIn(convoBuilderNow, [file EXCEPT !.patch = kept])
                     => /\ placedRecords(file) # {}
                        /\ \A rec \in placedRecords(file) : rec.patch = kept)
  /\ [][files' = files]_vars

\* --------------------------------------------------------- gather, then parse
\* C25: reviewChanges issues exactly one completion request per batch; the
\* response builder is invoked at most once, only when the request of every
\* batch has completed with a reply, and on exactly one reply per batch,
\* reply i being the reply to batch i, in whatever order they completed.
C25_GatherBeforeParse ==
  /\ Len(requests) = Len(groups)
  /\ builderCalls <= 1
  /\ builderCalls = 1 =>
       /\ \A i \in DOMAIN groups : requests[i].state = "replied"
       /\ DOMAIN feedbacks = DOMAIN groups
       /\ \A i \in DOMAIN groups : feedbacks[i] = requests[i].reply

\* the response builder ran on two different replies, the request of the
\* second batch having completed before the request of the first
C25_Witness ==
  /\ builderCalls = 1
  /\ Len(groups) = 2
  /\ requests[2].at < requests[1].at
  /\ requests[1].reply # requests[2].reply
  /\ feedbacks = << requests[1].reply, requests[2].reply >>

============================================================================
